---- MODULE Spec2Model ----
(***************************************************************************)
(* HexagonClient (src/src/SSVOpenHexagon/Core/HexagonClient.cpp): the      *)
(* client side of the Open Hexagon online protocol, as a state machine.    *)
(* Every public operation of the class is one action; the private methods  *)
(* are operators over a record `c` that carries the object's fields and    *)
(* the bookkeeping of the call in progress (return value, traffic, the     *)
(* values assigned to _state, socket calls).                               *)
(***************************************************************************)
EXTENDS Integers, Sequences, FiniteSets, TLC

VARIABLES
    state,              \* _state
    socketConnected,    \* _socketConnected
    ticketSteamID,      \* _ticketSteamID   (<<>> = nullopt, <<v>> = value)
    serverPublicKey,    \* _serverPublicKey (optional)
    clientRTKeys,       \* _clientRTKeys    (optional)
    loginToken,         \* _loginToken      (optional)
    loginName,          \* _loginName       (optional)
    events,             \* _events
    heartbeatAge,       \* Clock::now() - _lastHeartbeatTime, in seconds
    last,               \* the last public call: operation, result, traffic
    wire                \* the server's side of the socket, where followed

vars ==
    << state, socketConnected, ticketSteamID, serverPublicKey, clientRTKeys,
       loginToken, loginName, events, heartbeatAge, last, wire >>

----------------------------------------------------------------------------
(* Bounds of the model and constants of the program *)

MaxPending == 0

MaxTries == 5

MaxNameLen == 32

HeartbeatInterval == 45

----------------------------------------------------------------------------
(* Optionals *)

None == << >>

Some(v) == << v >>

has_value(o) == o # << >>

value(o) == o[1]

----------------------------------------------------------------------------
(* enum class State *)

Disconnected == "Disconnected"

InitError == "InitError"

Connecting == "Connecting"

ConnectionError == "ConnectionError"

Connected == "Connected"

LoggedIn == "LoggedIn"

----------------------------------------------------------------------------
(* The Event variant.  Every event is [type, data]; data is the tuple of   *)
(* the struct's members (empty for the structs without members).           *)

Ev(type, data) == [type |-> type, data |-> data]

EConnectionSuccess == Ev("EConnectionSuccess", << >>)

EConnectionFailure(error) == Ev("EConnectionFailure", << error >>)

EKicked == Ev("EKicked", << >>)

ERegistrationSuccess == Ev("ERegistrationSuccess", << >>)

ERegistrationFailure(error) == Ev("ERegistrationFailure", << error >>)

ELoginSuccess == Ev("ELoginSuccess", << >>)

ELoginFailure(error) == Ev("ELoginFailure", << error >>)

ELogoutSuccess == Ev("ELogoutSuccess", << >>)

ELogoutFailure == Ev("ELogoutFailure", << >>)

EDeleteAccountSuccess == Ev("EDeleteAccountSuccess", << >>)

EDeleteAccountFailure(error) == Ev("EDeleteAccountFailure", << error >>)

EReceivedTopScores(levelValidator, scores) ==
    Ev("EReceivedTopScores", << levelValidator, scores >>)

EReceivedOwnScore(levelValidator, score) ==
    Ev("EReceivedOwnScore", << levelValidator, score >>)

----------------------------------------------------------------------------
(* Key material (SSVOpenHexagon/Online/Sodium.hpp).  The client's key pair *)
(* is generated once, in the constructor.                                  *)

clientPSKeys == [keyPublic |-> "clientPublic", keySecret |-> "clientSecret"]

\* calculateClientSessionSodiumRTKeys: the session keys are a function of the
\* client's key pair and the server's public key, or nullopt when the key
\* exchange rejects the server's key (here the key "spkBad").
calculateClientSessionSodiumRTKeys(ps, serverKey) ==
    IF serverKey = "spkBad"
    THEN None
    ELSE Some([keyReceive  |-> << "rx", ps.keyPublic, serverKey >>,
               keyTransmit |-> << "tx", ps.keyPublic, serverKey >>])

\* The keys the server holds for the same session: it seals with the key the
\* client receives with.
ServerSealKey(serverKey) == << "rx", clientPSKeys.keyPublic, serverKey >>

\* The server opens with the key the client transmits with.
ServerOpenKey(serverKey) == << "tx", clientPSKeys.keyPublic, serverKey >>

\* sodiumKeyToString: the text of a key, as it is written to the log
sodiumKeyToString(key) == << "text", key >>

\* sodiumHash, of hashPwd
sodiumHash(s) == << "hash", s >>

\* hashPwd giving back the password
hashPwd_Plain(password) == password

\* hashPwd: hash of salt + password
hashPwd(password) == sodiumHash(<< "salt", password >>)

----------------------------------------------------------------------------
(* Client-to-server messages and their frames (Online/Shared.hpp) *)

Msg(kind, fields) == [kind |-> kind, fields |-> fields]

CTSPHeartbeat == Msg("CTSPHeartbeat", << >>)

CTSPDisconnect == Msg("CTSPDisconnect", << >>)

CTSPPublicKey(key) == Msg("CTSPPublicKey", << key >>)

CTSPRegister(steamId, name, passwordHash) ==
    Msg("CTSPRegister", << steamId, name, passwordHash >>)

CTSPLogin(steamId, name, passwordHash) ==
    Msg("CTSPLogin", << steamId, name, passwordHash >>)

CTSPLogout(steamId) == Msg("CTSPLogout", << steamId >>)

CTSPDeleteAccount(steamId, passwordHash) ==
    Msg("CTSPDeleteAccount", << steamId, passwordHash >>)

CTSPRequestTopScores(loginToken_, levelValidator) ==
    Msg("CTSPRequestTopScores", << loginToken_, levelValidator >>)

CTSPReplay(loginToken_, replayFile) ==
    Msg("CTSPReplay", << loginToken_, replayFile >>)

CTSPRequestOwnScore(loginToken_, levelValidator) ==
    Msg("CTSPRequestOwnScore", << loginToken_, levelValidator >>)

CTSPRequestTopScoresAndOwnScore(loginToken_, levelValidator) ==
    Msg("CTSPRequestTopScoresAndOwnScore", << loginToken_, levelValidator >>)

CTSPStartedGame(loginToken_, levelValidator) ==
    Msg("CTSPStartedGame", << loginToken_, levelValidator >>)

\* makeClientToServerPacket: a plaintext frame
makeClientToServerPacket(data) ==
    [enc |-> FALSE, key |-> None, body |-> data]

\* makeClientToServerEncryptedPacket: the message sealed with the transmit key
makeClientToServerEncryptedPacket(keyTransmit, data) ==
    [enc |-> TRUE, key |-> Some(keyTransmit), body |-> data]

\* decodeClientToServerPacket(keyReceive, errorOss, p), the server's side of
\* the codec: a plaintext frame decodes to its message, a sealed frame to its
\* message when the receive key opens it and to the invalid variant when the
\* key is absent or another one.  keyReceive is an optional.
decodeClientToServerPacket(keyReceive, p) ==
    IF ~p.enc THEN p.body
    ELSE IF ~has_value(keyReceive) THEN Msg("PInvalid", << >>)
    ELSE IF p.key # keyReceive THEN Msg("PInvalid", << >>)
    ELSE p.body

----------------------------------------------------------------------------
(* Server-to-client messages and decoding (Online/Shared.hpp) *)

PInvalid == Msg("PInvalid", << >>)

PEncryptedMsg == Msg("PEncryptedMsg", << >>)

STCPKick == Msg("STCPKick", << >>)

STCPPublicKey(key) == Msg("STCPPublicKey", << key >>)

STCPRegistrationSuccess == Msg("STCPRegistrationSuccess", << >>)

STCPRegistrationFailure(error) == Msg("STCPRegistrationFailure", << error >>)

STCPLoginSuccess(loginToken_, loginName_) ==
    Msg("STCPLoginSuccess", << loginToken_, loginName_ >>)

STCPLoginFailure(error) == Msg("STCPLoginFailure", << error >>)

STCPLogoutSuccess == Msg("STCPLogoutSuccess", << >>)

STCPLogoutFailure == Msg("STCPLogoutFailure", << >>)

STCPDeleteAccountSuccess == Msg("STCPDeleteAccountSuccess", << >>)

STCPDeleteAccountFailure(error) == Msg("STCPDeleteAccountFailure", << error >>)

STCPTopScores(levelValidator, scores) ==
    Msg("STCPTopScores", << levelValidator, scores >>)

STCPOwnScore(levelValidator, score) ==
    Msg("STCPOwnScore", << levelValidator, score >>)

\* ownScore is an optional
STCPTopScoresAndOwnScore(levelValidator, scores, ownScore) ==
    Msg("STCPTopScoresAndOwnScore", << levelValidator, scores, ownScore >>)

\* decodeServerToClientPacket(keyReceive, errorOss, p): a plaintext frame
\* decodes to its message; a sealed frame needs the receive key and decodes to
\* PInvalid when the key is absent or does not open it; a frame that is not
\* recognised decodes to PInvalid.  keyReceive is an optional (the pointer).
decodeServerToClientPacket(keyReceive, p) ==
    IF p.garbage THEN PInvalid
    ELSE IF ~p.enc THEN p.body
    ELSE IF ~has_value(keyReceive) THEN PInvalid
    ELSE IF p.key # keyReceive THEN PInvalid
    ELSE p.body

----------------------------------------------------------------------------
(* The transport (sf::TcpSocket).  What the socket answers is the          *)
(* environment's choice: a script says how many times in a row the         *)
(* primitive answers Partial and what it answers after that.               *)

Done == "Done"

NotReady == "NotReady"

Partial == "Partial"

SocketDisconnected == "Disconnected"

Error == "Error"

FinalStatus == { Done, NotReady, SocketDisconnected, Error }

Script(partials, final) == [partials |-> partials, final |-> final]

\* Every final status at the first call, success after one Partial, and
\* Partial until the tries are used up (the final status is then never seen).
Scripts ==
    { Script(0, f) : f \in FinalStatus }
        \cup { Script(1, Done), Script(MaxTries + 1, Done) }

\* The scripts of the best-effort notices of disconnect(), whose results are
\* discarded.
NoticeScripts == { Script(0, Done), Script(0, Error) }

DoneScript == Script(0, Done)

\* The status of the (tries+1)-th call of the primitive under script o
StatusAt(tries, o) == IF tries < o.partials THEN Partial ELSE o.final

----------------------------------------------------------------------------
(* The object and the call in progress *)

\* The fields of the object, with the bookkeeping of a call that starts now:
\* ret the value returned, threw whether the call ended in an exception,
\* polled what pollEvent returned, handled the kind of the packet the call
\* decoded and visited, trace the values assigned to _state in order, io
\* the calls of the socket in order (connect, send, receive, disconnect), each
\* with the packet and the last status the socket gave, log the key material
\* written to the log in order.
Begin(st, sock, ticket, spk, rt, token, name, evs, age) ==
    [ state |-> st, socketConnected |-> sock, ticketSteamID |-> ticket,
      serverPublicKey |-> spk, clientRTKeys |-> rt, loginToken |-> token,
      loginName |-> name, events |-> evs, heartbeatAge |-> age,
      ret |-> TRUE, threw |-> FALSE, polled |-> None, handled |-> "",
      trace |-> << >>, io |-> << >>, log |-> << >> ]

\* calls is the number of times the primitive of the socket was invoked
IO(op, packet, status) ==
    [op |-> op, packet |-> packet, status |-> status, calls |-> 1]

\* Handing a packet to _socket.send or _socket.receive, before the first call
\* of the primitive
Handed(op, packet) ==
    [op |-> op, packet |-> packet, status |-> "", calls |-> 0]

\* One call of the primitive for the packet handed over last: it answers
\* status, and a receive that is Done has filled in the packet
Called(c, status, packet) ==
    [c EXCEPT !.io[Len(c.io)] =
        [@ EXCEPT !.status = status, !.calls = @ + 1, !.packet = packet]]

NoPacket == [enc |-> FALSE, key |-> None, body |-> Msg("", << >>)]

Log(c, e) == [c EXCEPT !.io = Append(@, e)]

\* SSVOH_CLOG << ... : the texts xs are written to the log
Clog(c, xs) == [c EXCEPT !.log = @ \o xs]

Self ==
    Begin(state, socketConnected, ticketSteamID, serverPublicKey, clientRTKeys,
          loginToken, loginName, events, heartbeatAge)

\* return v
Return(c, v) == [c EXCEPT !.ret = v]

\* fail() that also forgets the login session
fail_ForgetsSession(c) ==
    Return([c EXCEPT !.loginToken = None, !.loginName = None], FALSE)

\* fail(...): logs and returns false
fail(c) == Return(c, FALSE)

\* _state = s
SetState(c, s) == [c EXCEPT !.state = s, !.trace = Append(@, s)]

\* addEvent
addEvent(c, e) == [c EXCEPT !.events = Append(@, e)]

\* sendPacketRecursive going on for as long as the primitive answers Partial
RECURSIVE sendPacketRecursive_Unbounded(_, _, _, _)
sendPacketRecursive_Unbounded(c, tries, p, o) ==
    LET status == StatusAt(tries, o)
        c1 == Called(c, status, p)
    IN  IF status = NotReady THEN fail(c1)
        ELSE IF status = Error THEN fail(c1)
        ELSE IF status = SocketDisconnected THEN fail(c1)
        ELSE IF status = Done THEN Return(c1, TRUE)
        ELSE sendPacketRecursive_Unbounded(c1, tries + 1, p, o)

\* sendPacketRecursive(tries, p)
RECURSIVE sendPacketRecursive(_, _, _, _)
sendPacketRecursive(c, tries, p, o) ==
    IF tries > MaxTries THEN fail(c)
    ELSE LET status == StatusAt(tries, o)
             c1 == Called(c, status, p)
         IN  IF status = NotReady THEN fail(c1)
             ELSE IF status = Error THEN fail(c1)
             ELSE IF status = SocketDisconnected THEN fail(c1)
             ELSE IF status = Done THEN Return(c1, TRUE)
             ELSE sendPacketRecursive(c1, tries + 1, p, o)

\* sendPacket
sendPacket(c, p, o) == sendPacketRecursive(Log(c, Handed("send", p)), 0, p, o)

\* sendUnencrypted
sendUnencrypted(c, data, o) ==
    IF ~c.socketConnected THEN fail(c)
    ELSE sendPacket(c, makeClientToServerPacket(data), o)

\* sendEncrypted falling back to the clear when there are no session keys
sendEncrypted_PlainFallback(c, data, o, sealOk) ==
    IF ~c.socketConnected THEN fail(c)
    ELSE IF ~has_value(c.clientRTKeys)
         THEN sendPacket(c, makeClientToServerPacket(data), o)
    ELSE IF ~sealOk THEN fail(c)
    ELSE sendPacket(c,
            makeClientToServerEncryptedPacket(
                value(c.clientRTKeys).keyTransmit, data), o)

\* sendEncrypted sealing with the key of the other direction
sendEncrypted_ReceiveKey(c, data, o, sealOk) ==
    IF ~c.socketConnected THEN fail(c)
    ELSE IF ~has_value(c.clientRTKeys) THEN fail(c)
    ELSE IF ~sealOk THEN fail(c)
    ELSE sendPacket(c,
            makeClientToServerEncryptedPacket(
                value(c.clientRTKeys).keyReceive, data), o)

\* sendEncrypted; sealOk is whether makeClientToServerEncryptedPacket succeeds
sendEncrypted(c, data, o, sealOk) ==
    IF ~c.socketConnected THEN fail(c)
    ELSE IF ~has_value(c.clientRTKeys) THEN fail(c)
    ELSE IF ~sealOk THEN fail(c)
    ELSE sendPacket(c,
            makeClientToServerEncryptedPacket(
                value(c.clientRTKeys).keyTransmit, data), o)

\* sendHeartbeat: _lastHeartbeatTime = Clock::now() after a successful send
sendHeartbeat(c, o) ==
    LET r == sendUnencrypted(c, CTSPHeartbeat, o) IN
    IF ~r.ret THEN fail(r)
    ELSE Return([r EXCEPT !.heartbeatAge = 0], TRUE)

sendDisconnect(c, o) == sendUnencrypted(c, CTSPDisconnect, o)

sendPublicKey(c, o) ==
    sendUnencrypted(c, CTSPPublicKey(clientPSKeys.keyPublic), o)

sendRegister(c, steamId, name, passwordHash, o, sealOk) ==
    sendEncrypted(c, CTSPRegister(steamId, name, passwordHash), o, sealOk)

sendLogin(c, steamId, name, passwordHash, o, sealOk) ==
    sendEncrypted(c, CTSPLogin(steamId, name, passwordHash), o, sealOk)

sendLogout(c, steamId, o, sealOk) ==
    sendEncrypted(c, CTSPLogout(steamId), o, sealOk)

sendDeleteAccount(c, steamId, passwordHash, o, sealOk) ==
    sendEncrypted(c, CTSPDeleteAccount(steamId, passwordHash), o, sealOk)

sendRequestTopScores(c, token, levelValidator, o, sealOk) ==
    sendEncrypted(c, CTSPRequestTopScores(token, levelValidator), o, sealOk)

sendReplay(c, token, replayFile, o, sealOk) ==
    sendEncrypted(c, CTSPReplay(token, replayFile), o, sealOk)

sendRequestOwnScore(c, token, levelValidator, o, sealOk) ==
    sendEncrypted(c, CTSPRequestOwnScore(token, levelValidator), o, sealOk)

sendRequestTopScoresAndOwnScore(c, token, levelValidator, o, sealOk) ==
    sendEncrypted(c, CTSPRequestTopScoresAndOwnScore(token, levelValidator),
                  o, sealOk)

sendStartedGame(c, token, levelValidator, o, sealOk) ==
    sendEncrypted(c, CTSPStartedGame(token, levelValidator), o, sealOk)

----------------------------------------------------------------------------
(* Connection *)

\* initializeTcpSocket; status is what _socket.connect answers
initializeTcpSocket(c, status) ==
    IF c.socketConnected THEN fail(c)
    ELSE LET c1 == Log(c, IO("connect", NoPacket, status)) IN
         IF status # Done
         THEN Return([c1 EXCEPT !.socketConnected = FALSE], FALSE)
         ELSE Return([c1 EXCEPT !.socketConnected = TRUE], TRUE)

\* disconnect() that also reports the end of the connection as an event
disconnect_Reports(c, d) ==
    LET c1 == IF c.state = LoggedIn /\ has_value(c.ticketSteamID)
              THEN sendLogout(c, value(c.ticketSteamID), d.logout, d.sealOk)
              ELSE c
        c2 == IF c1.state = Connected \/ c1.state = LoggedIn
              THEN sendDisconnect(c1, d.disconnect)
              ELSE c1
        c3 == Log(c2, IO("disconnect", NoPacket, Done))
    IN  SetState([addEvent(c3, EConnectionFailure(<< "Disconnected" >>))
                    EXCEPT !.socketConnected = FALSE, !.ret = c.ret],
                 Disconnected)

\* disconnect() closing the socket and leaving _state as it is
disconnect_KeepsState(c, d) ==
    LET c1 == IF c.state = LoggedIn /\ has_value(c.ticketSteamID)
              THEN sendLogout(c, value(c.ticketSteamID), d.logout, d.sealOk)
              ELSE c
        c2 == IF c1.state = Connected \/ c1.state = LoggedIn
              THEN sendDisconnect(c1, d.disconnect)
              ELSE c1
        c3 == Log(c2, IO("disconnect", NoPacket, Done))
    IN  [c3 EXCEPT !.socketConnected = FALSE, !.ret = c.ret]

\* disconnect()
disconnect(c, d) ==
    LET c1 == IF c.state = LoggedIn /\ has_value(c.ticketSteamID)
              THEN sendLogout(c, value(c.ticketSteamID), d.logout, d.sealOk)
              ELSE c
        c2 == IF c1.state = Connected \/ c1.state = LoggedIn
              THEN sendDisconnect(c1, d.disconnect)
              ELSE c1
        c3 == Log(c2, IO("disconnect", NoPacket, Done))
    IN  SetState([c3 EXCEPT !.socketConnected = FALSE, !.ret = c.ret],
                 Disconnected)

\* The lambda failEvent of connect()
failEvent(c, reason) ==
    Return(SetState(addEvent(c, EConnectionFailure(
                << "Failure connecting, error ", reason >>)),
                    ConnectionError),
           FALSE)

\* connect() sending the public key before the first heartbeat
connect_KeyFirst(c, status, h, k) ==
    LET c0 == SetState(c, Connecting) IN
    IF c0.socketConnected THEN fail(c0)
    ELSE LET c1 == initializeTcpSocket(c0, status) IN
         IF ~c1.ret THEN failEvent(c1, "initializing TCP socket")
         ELSE LET c2 == sendPublicKey(c1, h) IN
              IF ~c2.ret THEN failEvent(c2, "sending public key")
              ELSE LET c3 == sendHeartbeat(c2, k) IN
                   IF ~c3.ret THEN failEvent(c3, "sending first heartbeat")
                   ELSE Return(SetState(addEvent(c3, EConnectionSuccess),
                                        Connected),
                               TRUE)

\* connect(); status is what _socket.connect answers, h and k are the scripts
\* of the sends of the first heartbeat and of the public key
connect(c, status, h, k) ==
    LET c0 == SetState(c, Connecting) IN
    IF c0.socketConnected THEN fail(c0)
    ELSE LET c1 == initializeTcpSocket(c0, status) IN
         IF ~c1.ret THEN failEvent(c1, "initializing TCP socket")
         ELSE LET c2 == sendHeartbeat(c1, h) IN
              IF ~c2.ret THEN failEvent(c2, "sending first heartbeat")
              ELSE LET c3 == sendPublicKey(c2, k) IN
                   IF ~c3.ret THEN failEvent(c3, "sending public key")
                   ELSE Return(SetState(addEvent(c3, EConnectionSuccess),
                                        Connected),
                               TRUE)

----------------------------------------------------------------------------
(* Receiving *)

\* What the server may put on the wire
ServerFrame(enc, key, body) ==
    [garbage |-> FALSE, enc |-> enc, key |-> key, body |-> body]

GarbageFrame ==
    [garbage |-> TRUE, enc |-> FALSE, key |-> None, body |-> PInvalid]

\* A receive script: the statuses of the primitive and the frame it delivers
\* when it answers Done
RecvScript(partials, final, frame) ==
    [partials |-> partials, final |-> final, frame |-> frame]

\* recvPacketRecursive reporting a fatal status without disconnecting
RECURSIVE recvPacketRecursive_NoDisconnect(_, _, _, _)
recvPacketRecursive_NoDisconnect(c, tries, r, d) ==
    IF tries > MaxTries THEN fail(c)
    ELSE LET status == StatusAt(tries, r)
             c1 == Called(c, status,
                          IF status = Done THEN r.frame ELSE NoPacket)
         IN  IF status = NotReady THEN fail(c1)
             ELSE IF status = Error THEN fail(c1)
             ELSE IF status = SocketDisconnected THEN fail(c1)
             ELSE IF status = Done THEN Return(c1, TRUE)
             ELSE recvPacketRecursive_NoDisconnect(c1, tries + 1, r, d)

\* recvPacketRecursive(tries, p)
RECURSIVE recvPacketRecursive(_, _, _, _)
recvPacketRecursive(c, tries, r, d) ==
    IF tries > MaxTries THEN fail(c)
    ELSE LET status == StatusAt(tries, r)
             c1 == Called(c, status,
                          IF status = Done THEN r.frame ELSE NoPacket)
         IN  IF status = NotReady THEN fail(c1)
             ELSE IF status = Error THEN fail(disconnect(c1, d))
             ELSE IF status = SocketDisconnected THEN fail(disconnect(c1, d))
             ELSE IF status = Done THEN Return(c1, TRUE)
             ELSE recvPacketRecursive(c1, tries + 1, r, d)

\* recvPacket
recvPacket(c, r, d) ==
    recvPacketRecursive(Log(c, Handed("receive", NoPacket)), 0, r, d)

\* The visitor of receiveDataFromServer, one operator per alternative

\* An invalid packet reported to the consumer as a failed connection
onInvalid_Reports(c) ==
    fail(addEvent(c, EConnectionFailure(<< "Invalid packet" >>)))

onInvalid(c) == fail(c)

onEncryptedMsg(c) == fail(c)

\* A kick that is reported and leaves the connection open
onKick_StayConnected(c, d) == Return(addEvent(c, EKicked), TRUE)

onKick(c, d) == Return(disconnect(addEvent(c, EKicked), d), TRUE)

\* A public key that is ignored when the client already has one
onPublicKey_KeepsFirst(c, stcp, d) ==
    IF has_value(c.serverPublicKey) THEN Return(c, TRUE)
    ELSE LET c1 == [Clog(c, << sodiumKeyToString(stcp.fields[1]) >>) EXCEPT
                     !.serverPublicKey = Some(stcp.fields[1]),
                     !.clientRTKeys =
                         calculateClientSessionSodiumRTKeys(
                             clientPSKeys, stcp.fields[1])]
         IN  IF ~has_value(c1.clientRTKeys)
             THEN fail(disconnect(c1, d))
             ELSE Return(Clog(c1,
                     << sodiumKeyToString(value(c1.clientRTKeys).keyReceive),
                        sodiumKeyToString(value(c1.clientRTKeys).keyTransmit)
                     >>),
                         TRUE)

\* A public key that gives no session keys leaving the keys and the
\* connection the client had
onPublicKey_KeepsOld(c, stcp, d) ==
    LET keys == calculateClientSessionSodiumRTKeys(clientPSKeys,
                                                   stcp.fields[1])
    IN  IF ~has_value(keys)
        THEN fail(Clog(c, << sodiumKeyToString(stcp.fields[1]) >>))
        ELSE onPublicKey_KeepsFirst([c EXCEPT !.serverPublicKey = None],
                                    stcp, d)

onPublicKey(c, stcp, d) ==
    LET c1 == [Clog(c, << sodiumKeyToString(stcp.fields[1]) >>) EXCEPT
                !.serverPublicKey = Some(stcp.fields[1]),
                !.clientRTKeys =
                    calculateClientSessionSodiumRTKeys(
                        clientPSKeys, stcp.fields[1])]
    IN  IF ~has_value(c1.clientRTKeys)
        THEN fail(disconnect(c1, d))
        ELSE Return(Clog(c1,
                << sodiumKeyToString(value(c1.clientRTKeys).keyReceive),
                   sodiumKeyToString(value(c1.clientRTKeys).keyTransmit) >>),
                    TRUE)

onRegistrationSuccess(c) == Return(addEvent(c, ERegistrationSuccess), TRUE)

onRegistrationFailure(c, stcp) ==
    Return(addEvent(c, ERegistrationFailure(stcp.fields[1])), TRUE)

\* A login that keeps the login session the client already has
onLoginSuccess_KeepsSession(c, stcp) ==
    LET c1 == IF has_value(c.loginToken) THEN c
              ELSE [c EXCEPT !.loginToken = Some(stcp.fields[1]),
                             !.loginName = Some(stcp.fields[2])]
    IN  Return(addEvent(SetState(c1, LoggedIn), ELoginSuccess), TRUE)

onLoginSuccess(c, stcp) ==
    LET c1 == [c EXCEPT !.loginToken = Some(stcp.fields[1]),
                        !.loginName = Some(stcp.fields[2])]
    IN  Return(addEvent(SetState(c1, LoggedIn), ELoginSuccess), TRUE)

\* A refused login that also ends the connection
onLoginFailure_Drops(c, stcp) ==
    Return(SetState([addEvent(c, ELoginFailure(stcp.fields[1]))
                        EXCEPT !.socketConnected = FALSE],
                    Disconnected),
           TRUE)

onLoginFailure(c, stcp) ==
    Return(addEvent(c, ELoginFailure(stcp.fields[1])), TRUE)

onLogoutSuccess(c) == Return(addEvent(c, ELogoutSuccess), TRUE)

onLogoutFailure(c) == Return(addEvent(c, ELogoutFailure), TRUE)

onDeleteAccountSuccess(c) == Return(addEvent(c, EDeleteAccountSuccess), TRUE)

onDeleteAccountFailure(c, stcp) ==
    Return(addEvent(c, EDeleteAccountFailure(stcp.fields[1])), TRUE)

onTopScores(c, stcp) ==
    Return(addEvent(c, EReceivedTopScores(stcp.fields[1], stcp.fields[2])),
           TRUE)

onOwnScore(c, stcp) ==
    Return(addEvent(c, EReceivedOwnScore(stcp.fields[1], stcp.fields[2])),
           TRUE)

\* Top scores and own score reported with the own score first
onTopScoresAndOwnScore_OwnFirst(c, stcp) ==
    LET top == EReceivedTopScores(stcp.fields[1], stcp.fields[2])
    IN  IF has_value(stcp.fields[3])
        THEN Return(addEvent(addEvent(c,
                        EReceivedOwnScore(stcp.fields[1],
                                          value(stcp.fields[3]))), top),
                    TRUE)
        ELSE Return(addEvent(c, top), TRUE)

\* Top scores and own score reported without the own score
onTopScoresAndOwnScore_TopOnly(c, stcp) ==
    Return(addEvent(c, EReceivedTopScores(stcp.fields[1], stcp.fields[2])),
           TRUE)

onTopScoresAndOwnScore(c, stcp) ==
    LET c1 == addEvent(c, EReceivedTopScores(stcp.fields[1], stcp.fields[2]))
    IN  IF has_value(stcp.fields[3])
        THEN Return(addEvent(c1, EReceivedOwnScore(stcp.fields[1],
                                                   value(stcp.fields[3]))),
                    TRUE)
        ELSE Return(c1, TRUE)

\* Utils::match(pv, ...); handled remembers the alternative that was visited
handlePacket(c0, pv, d) ==
    LET c == [c0 EXCEPT !.handled = pv.kind] IN
    CASE pv.kind = "PInvalid" -> onInvalid(c)
      [] pv.kind = "PEncryptedMsg" -> onEncryptedMsg(c)
      [] pv.kind = "STCPKick" -> onKick(c, d)
      [] pv.kind = "STCPPublicKey" -> onPublicKey(c, pv, d)
      [] pv.kind = "STCPRegistrationSuccess" -> onRegistrationSuccess(c)
      [] pv.kind = "STCPRegistrationFailure" -> onRegistrationFailure(c, pv)
      [] pv.kind = "STCPLoginSuccess" -> onLoginSuccess(c, pv)
      [] pv.kind = "STCPLoginFailure" -> onLoginFailure(c, pv)
      [] pv.kind = "STCPLogoutSuccess" -> onLogoutSuccess(c)
      [] pv.kind = "STCPLogoutFailure" -> onLogoutFailure(c)
      [] pv.kind = "STCPDeleteAccountSuccess" -> onDeleteAccountSuccess(c)
      [] pv.kind = "STCPDeleteAccountFailure" -> onDeleteAccountFailure(c, pv)
      [] pv.kind = "STCPTopScores" -> onTopScores(c, pv)
      [] pv.kind = "STCPOwnScore" -> onOwnScore(c, pv)
      [] pv.kind = "STCPTopScoresAndOwnScore" -> onTopScoresAndOwnScore(c, pv)

\* receiveDataFromServer
receiveDataFromServer(c, r, d) ==
    IF ~c.socketConnected THEN fail(c)
    ELSE LET c1 == recvPacket(c, r, d) IN
         IF ~c1.ret THEN fail(c1)
         ELSE handlePacket(c1,
                decodeServerToClientPacket(
                    IF has_value(c1.clientRTKeys)
                    THEN Some(value(c1.clientRTKeys).keyReceive)
                    ELSE None,
                    r.frame),
                d)

\* sendHeartbeatIfNecessary sending already when the interval has just elapsed
sendHeartbeatIfNecessary_AtInterval(c, h, d) ==
    IF ~c.socketConnected THEN Return(c, TRUE)
    ELSE IF c.heartbeatAge >= HeartbeatInterval
         THEN LET c1 == sendHeartbeat(c, h) IN
              IF ~c1.ret THEN fail(disconnect(c1, d))
              ELSE Return(c1, TRUE)
         ELSE Return(c, TRUE)

\* sendHeartbeatIfNecessary going on after a heartbeat that could not be sent
sendHeartbeatIfNecessary_KeepsGoing(c, h, d) ==
    IF ~c.socketConnected THEN Return(c, TRUE)
    ELSE IF c.heartbeatAge > HeartbeatInterval
         THEN LET c1 == sendHeartbeat(c, h) IN
              IF ~c1.ret THEN fail(c1)
              ELSE Return(c1, TRUE)
         ELSE Return(c, TRUE)

\* sendHeartbeatIfNecessary
sendHeartbeatIfNecessary(c, h, d) ==
    IF ~c.socketConnected THEN Return(c, TRUE)
    ELSE IF c.heartbeatAge > HeartbeatInterval
         THEN LET c1 == sendHeartbeat(c, h) IN
              IF ~c1.ret THEN fail(disconnect(c1, d))
              ELSE Return(c1, TRUE)
         ELSE Return(c, TRUE)

\* update() that polls the socket also when _socketConnected is false
update_PollsAnyway(c, h, r, d) ==
    IF ~c.socketConnected THEN Return(recvPacket(c, r, d), c.ret)
    ELSE Return(receiveDataFromServer(sendHeartbeatIfNecessary(c, h, d), r, d),
                c.ret)

\* update(); both results are discarded
update(c, h, r, d) ==
    IF ~c.socketConnected THEN c
    ELSE Return(receiveDataFromServer(sendHeartbeatIfNecessary(c, h, d), r, d),
                c.ret)

----------------------------------------------------------------------------
(* Requests *)

\* The guard without its comparison of _state
connectedAndInState_AnyState(c, s) == c.socketConnected

connectedAndInState(c, s) == c.socketConnected /\ c.state = s

\* SSVOH_ASSERT(x.has_value()) followed by x.value(): on an empty optional the
\* call does not return
Throw(c) == [c EXCEPT !.threw = TRUE, !.ret = FALSE]

ValidationError == "Name or password fields too long or empty"

\* tryRegister validating its arguments before it looks at the connection
tryRegister_ValidateFirst(c, name, password, o, sealOk) ==
    IF Len(name) = 0 \/ Len(name) > MaxNameLen \/ Len(password) = 0
    THEN Return(addEvent(c, ERegistrationFailure(ValidationError)), FALSE)
    ELSE IF ~connectedAndInState(c, Connected) THEN fail(c)
         ELSE IF ~has_value(c.ticketSteamID) THEN Throw(c)
              ELSE sendRegister(c, value(c.ticketSteamID), name,
                                hashPwd(password), o, sealOk)

\* tryRegister accepting a name of any length
tryRegister_NoLengthCap(c, name, password, o, sealOk) ==
    IF ~connectedAndInState(c, Connected) THEN fail(c)
    ELSE IF Len(name) = 0 \/ Len(password) = 0
         THEN Return(addEvent(c, ERegistrationFailure(ValidationError)), FALSE)
         ELSE IF ~has_value(c.ticketSteamID) THEN Throw(c)
              ELSE sendRegister(c, value(c.ticketSteamID), name,
                                hashPwd(password), o, sealOk)

\* tryRegister
tryRegister(c, name, password, o, sealOk) ==
    IF ~connectedAndInState(c, Connected) THEN fail(c)
    ELSE IF Len(name) = 0 \/ Len(name) > MaxNameLen \/ Len(password) = 0
         THEN Return(addEvent(c, ERegistrationFailure(ValidationError)), FALSE)
         ELSE IF ~has_value(c.ticketSteamID) THEN Throw(c)
              ELSE sendRegister(c, value(c.ticketSteamID), name,
                                hashPwd(password), o, sealOk)

\* tryLogin
tryLogin(c, name, password, o, sealOk) ==
    IF ~connectedAndInState(c, Connected) THEN fail(c)
    ELSE IF Len(name) = 0 \/ Len(name) > MaxNameLen \/ Len(password) = 0
         THEN Return(addEvent(c, ELoginFailure(ValidationError)), FALSE)
         ELSE IF ~has_value(c.ticketSteamID) THEN Throw(c)
              ELSE sendLogin(c, value(c.ticketSteamID), name,
                             hashPwd(password), o, sealOk)

\* tryLogoutFromServer leaving _state and the login session to the reply
tryLogoutFromServer_Waits(c, o, sealOk) ==
    IF ~connectedAndInState(c, LoggedIn) THEN fail(c)
    ELSE IF ~has_value(c.ticketSteamID) THEN Throw(c)
         ELSE sendLogout(c, value(c.ticketSteamID), o, sealOk)

\* tryLogoutFromServer() forgetting the session and staying LoggedIn
tryLogoutFromServer_StaysLoggedIn(c, o, sealOk) ==
    IF ~connectedAndInState(c, LoggedIn) THEN fail(c)
    ELSE LET c1 == [c EXCEPT !.loginToken = None, !.loginName = None]
         IN  IF ~has_value(c1.ticketSteamID) THEN Throw(c1)
             ELSE sendLogout(c1, value(c1.ticketSteamID), o, sealOk)

\* tryLogoutFromServer
tryLogoutFromServer(c, o, sealOk) ==
    IF ~connectedAndInState(c, LoggedIn) THEN fail(c)
    ELSE LET c1 == [SetState(c, Connected) EXCEPT !.loginToken = None,
                                                  !.loginName = None]
         IN  IF ~has_value(c1.ticketSteamID) THEN Throw(c1)
             ELSE sendLogout(c1, value(c1.ticketSteamID), o, sealOk)

\* tryDeleteAccount
tryDeleteAccount(c, password, o, sealOk) ==
    IF ~connectedAndInState(c, Connected) THEN fail(c)
    ELSE IF ~has_value(c.ticketSteamID) THEN Throw(c)
         ELSE sendDeleteAccount(c, value(c.ticketSteamID), hashPwd(password),
                                o, sealOk)

\* tryRequestTopScores
tryRequestTopScores(c, levelValidator, o, sealOk) ==
    IF ~connectedAndInState(c, LoggedIn) THEN fail(c)
    ELSE IF ~has_value(c.loginToken) THEN Throw(c)
         ELSE sendRequestTopScores(c, value(c.loginToken), levelValidator,
                                   o, sealOk)

\* trySendReplay
trySendReplay(c, replayFile, o, sealOk) ==
    IF ~connectedAndInState(c, LoggedIn) THEN fail(c)
    ELSE IF ~has_value(c.loginToken) THEN Throw(c)
         ELSE sendReplay(c, value(c.loginToken), replayFile, o, sealOk)

\* tryRequestOwnScore
tryRequestOwnScore(c, levelValidator, o, sealOk) ==
    IF ~connectedAndInState(c, LoggedIn) THEN fail(c)
    ELSE IF ~has_value(c.loginToken) THEN Throw(c)
         ELSE sendRequestOwnScore(c, value(c.loginToken), levelValidator,
                                  o, sealOk)

\* tryRequestTopScoresAndOwnScore
tryRequestTopScoresAndOwnScore(c, levelValidator, o, sealOk) ==
    IF ~connectedAndInState(c, LoggedIn) THEN fail(c)
    ELSE IF ~has_value(c.loginToken) THEN Throw(c)
         ELSE sendRequestTopScoresAndOwnScore(c, value(c.loginToken),
                                              levelValidator, o, sealOk)

\* trySendStartedGame
trySendStartedGame(c, levelValidator, o, sealOk) ==
    IF ~connectedAndInState(c, LoggedIn) THEN fail(c)
    ELSE IF ~has_value(c.loginToken) THEN Throw(c)
         ELSE sendStartedGame(c, value(c.loginToken), levelValidator,
                              o, sealOk)

\* pollEvent taking the newest event instead of the oldest
pollEvent_Newest(c) ==
    IF c.events = << >> THEN [c EXCEPT !.polled = None]
    ELSE [c EXCEPT !.polled = Some(c.events[Len(c.events)]),
                   !.events = SubSeq(@, 1, Len(@) - 1)]

\* pollEvent
pollEvent(c) ==
    IF c.events = << >> THEN [c EXCEPT !.polled = None]
    ELSE [c EXCEPT !.polled = Some(Head(c.events)), !.events = Tail(@)]

----------------------------------------------------------------------------
(* Construction *)

MaxSteamTries == 15

\* initializeTicketSteamID; steam is what the Steam manager answers: after how
\* many run_callbacks the response is there, whether it holds a ticket, and
\* the Steam ID of the ticket (an optional)
initializeTicketSteamID(c, steam) ==
    IF steam.responseAfter > MaxSteamTries THEN fail(c)
    ELSE IF ~steam.gotTicket THEN fail(c)
    ELSE IF ~has_value(steam.steamId) THEN fail(c)
    ELSE Return([c EXCEPT !.ticketSteamID = steam.steamId], TRUE)

\* The member initializers of the constructor; _lastHeartbeatTime{} is the
\* epoch, which is more than the heartbeat interval ago
Fresh ==
    Begin(Disconnected, FALSE, None, None, None, None, None, << >>,
          HeartbeatInterval + 1)

\* The first statement of the constructor: "Initializing client..." with
\* sKeyPublic and sKeySecret
Initializing ==
    Clog(Fresh, << sodiumKeyToString(clientPSKeys.keyPublic),
                   sodiumKeyToString(clientPSKeys.keySecret) >>)

\* The constructor connecting also a client that got no Steam ID
HexagonClient_TicketOptional(ipValid, steam, status, h, k) ==
    IF ~ipValid THEN SetState(Initializing, InitError)
    ELSE connect(initializeTicketSteamID(Initializing, steam), status, h, k)

\* HexagonClient::HexagonClient; ipValid is _serverIp != sf::IpAddress::None
HexagonClient(ipValid, steam, status, h, k) ==
    IF ~ipValid THEN SetState(Initializing, InitError)
    ELSE LET c1 == initializeTicketSteamID(Initializing, steam) IN
         IF ~c1.ret THEN SetState(c1, InitError)
         ELSE connect(c1, status, h, k)

----------------------------------------------------------------------------
(* The inputs of the calls *)

SteamAnswers ==
    { [responseAfter |-> MaxSteamTries, gotTicket |-> TRUE,
       steamId |-> Some("steam1")],
      [responseAfter |-> MaxSteamTries + 1, gotTicket |-> TRUE,
       steamId |-> Some("steam1")],
      [responseAfter |-> 0, gotTicket |-> FALSE, steamId |-> None],
      [responseAfter |-> 0, gotTicket |-> TRUE, steamId |-> None] }

ConnectStatus == { Done, Error }

NameOfLen(n) == [i \in 1..n |-> "a"]

\* Name and password of tryRegister and tryLogin: the shortest and the longest
\* valid name, and each way of being invalid
Credentials ==
    { << NameOfLen(1), << "p" >> >>,
      << NameOfLen(MaxNameLen), << "p" >> >>,
      << NameOfLen(0), << "p" >> >>,
      << NameOfLen(MaxNameLen + 1), << "p" >> >>,
      << NameOfLen(1), << >> >> }

Passwords == { << >>, << "p" >> }

LevelValidators == { "lv" }

ReplayFiles == { "replay" }

\* The messages of the server, by what they carry
ControlMessages(keys) ==
    { STCPKick, PEncryptedMsg } \cup { STCPPublicKey(key) : key \in keys }

LoginMessages(logins, reasons) ==
    { STCPLogoutSuccess, STCPLogoutFailure }
        \cup { STCPLoginSuccess(l[1], l[2]) : l \in logins }
        \cup { STCPLoginFailure(e) : e \in reasons }

AccountMessages(reasons) ==
    { STCPRegistrationSuccess, STCPDeleteAccountSuccess }
        \cup { STCPRegistrationFailure(e) : e \in reasons }
        \cup { STCPDeleteAccountFailure(e) : e \in reasons }

ScoreMessages ==
    { STCPTopScores("lv", "scores"), STCPOwnScore("lv", "score"),
      STCPTopScoresAndOwnScore("lv", "scores", None),
      STCPTopScoresAndOwnScore("lv", "scores", Some("score")) }

Plain(msgs) == { ServerFrame(FALSE, None, m) : m \in msgs }

Sealed(key, msgs) ==
    { ServerFrame(TRUE, Some(ServerSealKey(key)), m) : m \in msgs }

\* The frames of the server in Spec: the control messages in the clear, every
\* other message sealed with the key of the session of "spk1", one frame sealed
\* with the key of another session, and one that is no frame at all
ServerFrames ==
    { GarbageFrame }
        \cup Plain(ControlMessages({ "spk1", "spkBad" }))
        \cup Sealed("spk1", LoginMessages({ << "tok1", "nm1" >> }, { "denied" }))
        \cup Sealed("spk1", AccountMessages({ "denied" }))
        \cup Sealed("spk1", ScoreMessages)
        \cup Sealed("spk2", { STCPLogoutSuccess })

\* What a receive can give: a frame, each failure, a frame after one Partial,
\* and Partial until the tries are used up
RecvScripts(frames) ==
    { RecvScript(0, Done, f) : f \in frames }
        \cup { RecvScript(0, s, GarbageFrame) : s \in FinalStatus \ { Done } }
        \cup { RecvScript(1, Done, ServerFrame(FALSE, None, STCPKick)),
               RecvScript(MaxTries + 1, Done, GarbageFrame) }

\* The scripts of the two sends of connect(): the first is consumed when the
\* socket connects, the second when the first send succeeds
FirstScripts(status) == IF status = Done THEN Scripts ELSE { DoneScript }

SecondScripts(status, h) ==
    IF status = Done
        /\ sendPacketRecursive(Log(Fresh, Handed("send", NoPacket)),
                               0, NoPacket, h).ret
    THEN Scripts ELSE { DoneScript }

----------------------------------------------------------------------------
(* The actions: one per public operation *)

\* The fields of the object
Fields(c) ==
    [ state |-> c.state, socketConnected |-> c.socketConnected,
      ticketSteamID |-> c.ticketSteamID,
      serverPublicKey |-> c.serverPublicKey,
      clientRTKeys |-> c.clientRTKeys, loginToken |-> c.loginToken,
      loginName |-> c.loginName, events |-> c.events,
      heartbeatAge |-> c.heartbeatAge ]

\* What is remembered of a call: the operation and its arguments, how it
\* ended, what it did, and the object as it was when the call started
LastOf(op, args, c, before) ==
    [ op |-> op, args |-> args, ret |-> c.ret, threw |-> c.threw,
      polled |-> c.polled, handled |-> c.handled, trace |-> c.trace,
      io |-> c.io, log |-> c.log,
      pre |-> Fields(before) ]

\* The object after the call.  The consumer of the events lets at most
\* `pending` events wait in the queue when it calls the client again;
\* pollEvent is what it calls meanwhile.
CommitWithin(pending, op, args, c) ==
    /\ op # "pollEvent" => Len(events) <= pending
    /\ state' = c.state
    /\ socketConnected' = c.socketConnected
    /\ ticketSteamID' = c.ticketSteamID
    /\ serverPublicKey' = c.serverPublicKey
    /\ clientRTKeys' = c.clientRTKeys
    /\ loginToken' = c.loginToken
    /\ loginName' = c.loginName
    /\ events' = c.events
    /\ heartbeatAge' = c.heartbeatAge
    /\ last' = LastOf(op, args, c, Self)

\* In Spec the consumer lets at most MaxPending events wait, and what the
\* server sends is not followed: every receive is given its frame
Commit(op, args, c) ==
    /\ CommitWithin(MaxPending, op, args, c)
    /\ UNCHANGED wire

Init ==
    \E ipValid \in BOOLEAN, steam \in SteamAnswers, status \in ConnectStatus :
      \E h \in FirstScripts(status) :
        \E k \in SecondScripts(status, h) :
          LET c == HexagonClient(ipValid, steam, status, h, k) IN
          /\ state = c.state
          /\ socketConnected = c.socketConnected
          /\ ticketSteamID = c.ticketSteamID
          /\ serverPublicKey = c.serverPublicKey
          /\ clientRTKeys = c.clientRTKeys
          /\ loginToken = c.loginToken
          /\ loginName = c.loginName
          /\ events = c.events
          /\ heartbeatAge = c.heartbeatAge
          /\ last = LastOf("HexagonClient", << ipValid, steam >>, c, Fresh)
          /\ wire = [sent |-> << >>, inbound |-> << >>, got |-> << >>]

\* The scripts a call can consume in the current state
HeartbeatScripts ==
    IF socketConnected /\ heartbeatAge > HeartbeatInterval
    THEN Scripts ELSE { DoneScript }

NoticesNow ==
    [ logout : IF state = LoggedIn /\ socketConnected
               THEN NoticeScripts ELSE { DoneScript },
      disconnect : IF state \in { Connected, LoggedIn } /\ socketConnected
                   THEN NoticeScripts ELSE { DoneScript },
      sealOk : { TRUE } ]

\* The scripts of the one send of a request that needs state s, and whether
\* its packet can be sealed
SendScripts(s) ==
    IF socketConnected /\ state = s /\ has_value(clientRTKeys)
    THEN Scripts ELSE { DoneScript }

SealResults(s) ==
    IF socketConnected /\ state = s /\ has_value(clientRTKeys)
    THEN BOOLEAN ELSE { TRUE }

Connect ==
    \E status \in (IF socketConnected THEN { Done } ELSE ConnectStatus) :
        \E h \in FirstScripts(status) :
            \E k \in SecondScripts(status, h) :
                Commit("connect", << >>, connect(Self, status, h, k))

Disconnect ==
    \E d \in NoticesNow :
        Commit("disconnect", << >>, disconnect(Self, d))

Update(frames) ==
    \E h \in HeartbeatScripts, d \in NoticesNow,
       r \in (IF socketConnected THEN RecvScripts(frames)
              ELSE { RecvScript(0, NotReady, GarbageFrame) }) :
        Commit("update", << >>, update(Self, h, r, d))

TryRegister ==
    \E cr \in Credentials, o \in SendScripts(Connected),
       sealOk \in SealResults(Connected) :
        Commit("tryRegister", cr, tryRegister(Self, cr[1], cr[2], o, sealOk))

TryLogin ==
    \E cr \in Credentials, o \in SendScripts(Connected),
       sealOk \in SealResults(Connected) :
        Commit("tryLogin", cr, tryLogin(Self, cr[1], cr[2], o, sealOk))

TryLogoutFromServer ==
    \E o \in SendScripts(LoggedIn), sealOk \in SealResults(LoggedIn) :
        Commit("tryLogoutFromServer", << >>,
               tryLogoutFromServer(Self, o, sealOk))

TryDeleteAccount ==
    \E password \in Passwords, o \in SendScripts(Connected),
       sealOk \in SealResults(Connected) :
        Commit("tryDeleteAccount", << password >>,
               tryDeleteAccount(Self, password, o, sealOk))

TryRequestTopScores ==
    \E lv \in LevelValidators, o \in SendScripts(LoggedIn),
       sealOk \in SealResults(LoggedIn) :
        Commit("tryRequestTopScores", << lv >>,
               tryRequestTopScores(Self, lv, o, sealOk))

TrySendReplay ==
    \E rf \in ReplayFiles, o \in SendScripts(LoggedIn),
       sealOk \in SealResults(LoggedIn) :
        Commit("trySendReplay", << rf >>,
               trySendReplay(Self, rf, o, sealOk))

TryRequestOwnScore ==
    \E lv \in LevelValidators, o \in SendScripts(LoggedIn),
       sealOk \in SealResults(LoggedIn) :
        Commit("tryRequestOwnScore", << lv >>,
               tryRequestOwnScore(Self, lv, o, sealOk))

TryRequestTopScoresAndOwnScore ==
    \E lv \in LevelValidators, o \in SendScripts(LoggedIn),
       sealOk \in SealResults(LoggedIn) :
        Commit("tryRequestTopScoresAndOwnScore", << lv >>,
               tryRequestTopScoresAndOwnScore(Self, lv, o, sealOk))

TrySendStartedGame ==
    \E lv \in LevelValidators, o \in SendScripts(LoggedIn),
       sealOk \in SealResults(LoggedIn) :
        Commit("trySendStartedGame", << lv >>,
               trySendStartedGame(Self, lv, o, sealOk))

PollEvent == Commit("pollEvent", << >>, pollEvent(Self))

\* Time passes: the last heartbeat becomes `age` seconds old
Tick(ages) ==
    \E age \in ages :
        /\ age > heartbeatAge
        /\ Commit("tick", << >>, [Self EXCEPT !.heartbeatAge = age])

Next ==
    \/ Connect
    \/ Disconnect
    \/ Update(ServerFrames)
    \/ TryRegister
    \/ TryLogin
    \/ TryLogoutFromServer
    \/ TryDeleteAccount
    \/ TryRequestTopScores
    \/ TrySendReplay
    \/ TryRequestOwnScore
    \/ TryRequestTopScoresAndOwnScore
    \/ TrySendStartedGame
    \/ PollEvent
    \/ Tick({ HeartbeatInterval + 1 })

Spec == Init /\ [][Next]_vars

----------------------------------------------------------------------------
(* A second specification: a consumer that lets up to MaxBacklog events    *)
(* wait, a client that is connected, updated and disconnected but makes no *)
(* request, a server that knows two logins, and a clock that also stops at *)
(* exactly the heartbeat interval.                                         *)

MaxBacklog == 2

\* The frames of the server in SpecBacklog: the public keys of two sessions,
\* two logins, one message that gives two events, and a kick
BacklogFrames ==
    Plain({ STCPPublicKey("spk1"), STCPPublicKey("spk2"), STCPKick })
        \cup Sealed("spk1",
                { STCPLoginSuccess("tok1", "nm1"),
                  STCPLoginSuccess("tok2", "nm2"),
                  STCPTopScoresAndOwnScore("lv", "scores", Some("score")) })

NextBacklog ==
    \/ \E h \in HeartbeatScripts, d \in NoticesNow,
          r \in (IF socketConnected THEN RecvScripts(BacklogFrames)
                 ELSE { RecvScript(0, NotReady, GarbageFrame) }) :
            /\ CommitWithin(MaxBacklog, "update", << >>,
                            update(Self, h, r, d))
            /\ UNCHANGED wire
    \/ PollEvent
    \/ Connect
    \/ Disconnect
    \/ \E age \in { HeartbeatInterval, HeartbeatInterval + 1 } :
            /\ age > heartbeatAge
            /\ CommitWithin(MaxBacklog, "tick", << >>,
                            [Self EXCEPT !.heartbeatAge = age])
            /\ UNCHANGED wire

SpecBacklog == Init /\ [][NextBacklog]_vars

----------------------------------------------------------------------------
(* A third specification: the socket seen from both ends.  The server      *)
(* sends its public key and then up to MaxSent - 1 sealed messages; the    *)
(* frames wait in the socket, in the order sent, until a receive of        *)
(* update() returns one complete; the consumer calls update() and          *)
(* pollEvent() and nothing else.  wire.sent is every message sent,         *)
(* wire.inbound the frames not yet received, wire.got every event          *)
(* pollEvent() has returned.                                               *)

MaxSent == 3

\* The sealed messages of the server in SpecLive
LiveFrames ==
    Sealed("spk1", { STCPLoginSuccess("tok1", "nm1"),
                     STCPTopScoresAndOwnScore("lv", "scores", Some("score")) })

\* The server sends a frame: its public key first
Deliver ==
    /\ socketConnected
    /\ Len(wire.sent) < MaxSent
    /\ \E f \in (IF wire.sent = << >>
                 THEN Plain({ STCPPublicKey("spk1") }) ELSE LiveFrames) :
            wire' = [wire EXCEPT !.sent = Append(@, f.body),
                                 !.inbound = Append(@, f)]
    /\ UNCHANGED << state, socketConnected, ticketSteamID, serverPublicKey,
                    clientRTKeys, loginToken, loginName, events,
                    heartbeatAge, last >>

\* update() whose receive returns the oldest waiting frame complete, at once
\* or after a partial receive (complete), or returns nothing: not ready, or
\* partial until the retries are used up, and the frame keeps waiting.  The
\* notices of a disconnect, if one is forced, go out at once.
LiveUpdate(complete) ==
    /\ complete => (socketConnected /\ wire.inbound # << >>)
    /\ \E h \in HeartbeatScripts,
          d \in { [logout |-> DoneScript, disconnect |-> DoneScript,
                   sealOk |-> TRUE] },
          r \in (IF complete
                 THEN { RecvScript(n, Done, Head(wire.inbound)) :
                            n \in { 0, 1 } }
                 ELSE { RecvScript(0, NotReady, GarbageFrame),
                        RecvScript(MaxTries + 1, Done, GarbageFrame) }) :
            \E c \in { update(Self, h, r, d) } :
                CommitWithin(2 * MaxSent, "update", << >>, c)
    /\ wire' = IF complete THEN [wire EXCEPT !.inbound = Tail(@)] ELSE wire

\* pollEvent(), and what it returned
LivePoll ==
    \E c \in { pollEvent(Self) } :
        /\ CommitWithin(2 * MaxSent, "pollEvent", << >>, c)
        /\ wire' = [wire EXCEPT !.got = IF has_value(c.polled)
                                         THEN Append(@, value(c.polled))
                                         ELSE @]

NextLive ==
    \/ Deliver
    \/ LiveUpdate(TRUE)
    \/ LiveUpdate(FALSE)
    \/ LivePoll

\* update() and pollEvent() are called again and again, and a frame that
\* waits is in the end returned complete by a receive
SpecLive ==
    /\ Init
    /\ [][NextLive]_vars
    /\ WF_vars(LiveUpdate(TRUE))
    /\ WF_vars(LivePoll)

----------------------------------------------------------------------------
(* Properties.  Each speaks of the state after a public call and of what   *)
(* `last` remembers of that call.                                          *)

\* The packets the call handed to the socket, in order
Sends == SelectSeq(last.io, LAMBDA e : e.op = "send")

\* The call changed no field of the object
ObjectUntouched == Fields(Self) = last.pre

\* The call appended exactly one event
AppendedOne ==
    /\ Len(events) = Len(last.pre.events) + 1
    /\ SubSeq(events, 1, Len(last.pre.events)) = last.pre.events

Appended == events[Len(events)]

\* The call returned false and did nothing else
RejectedCleanly ==
    /\ last.ret = FALSE
    /\ ~last.threw
    /\ last.io = << >>
    /\ ObjectUntouched

LoggedInRequests ==
    { "tryLogoutFromServer", "tryRequestTopScores", "tryRequestOwnScore",
      "tryRequestTopScoresAndOwnScore", "trySendStartedGame", "trySendReplay" }

ConnectedRequests == { "tryRegister", "tryLogin", "tryDeleteAccount" }

WasConnectedIn(s) == last.pre.socketConnected /\ last.pre.state = s

\* C1: a request that needs a login (logout, top scores, own score, top
\* scores and own score, started game, replay), called when the transport is
\* not connected or the state is not LoggedIn, returns false, sends nothing,
\* appends no event and changes neither the state nor any other field.
C1_LoggedInRequestRejected ==
    (last.op \in LoggedInRequests /\ ~WasConnectedIn(LoggedIn))
        => RejectedCleanly

\* C1 happens: a replay submitted while Connected but not logged in
C1_Witness ==
    /\ last.op = "trySendReplay"
    /\ WasConnectedIn(Connected)
    /\ last.ret = FALSE

\* C2: tryRegister, tryLogin and tryDeleteAccount, called when the transport
\* is not connected or the state is not Connected, return false, send nothing
\* and append no event, whatever their arguments; nothing changes.
C2_ConnectedRequestRejected ==
    (last.op \in ConnectedRequests /\ ~WasConnectedIn(Connected))
        => RejectedCleanly

\* C2 happens: a registration with an empty name on a client without
\* transport
C2_Witness ==
    /\ last.op = "tryRegister"
    /\ ~last.pre.socketConnected
    /\ Len(last.args[1]) = 0
    /\ last.ret = FALSE

\* A call of connect(): the public one, or the one the constructor makes
ConnectCalled ==
    \/ last.op = "connect"
    \/ /\ last.op = "HexagonClient"
       /\ last.trace # << >>
       /\ last.trace[1] = Connecting

\* C3: connect() from Disconnected, when the socket connects and every send
\* succeeds, goes through Connecting to Connected with the transport
\* connected, returns true, appends EConnectionSuccess and nothing else, and
\* its only traffic is the heartbeat followed by the client's public key,
\* both in the clear.
C3_ConnectSucceeds ==
    ( /\ ConnectCalled
      /\ last.pre.state = Disconnected
      /\ \A i \in DOMAIN last.io : last.io[i].status = Done )
        => /\ last.trace = << Connecting, Connected >>
           /\ state = Connected
           /\ socketConnected
           /\ last.ret = TRUE
           /\ AppendedOne
           /\ Appended.type = "EConnectionSuccess"
           /\ Len(last.io) = 3
           /\ last.io[1].op = "connect"
           /\ Len(Sends) = 2
           /\ Sends[1].packet = makeClientToServerPacket(CTSPHeartbeat)
           /\ Sends[2].packet.enc = FALSE
           /\ Sends[2].packet.body.kind = "CTSPPublicKey"
           /\ Sends[2].packet.body.fields = << clientPSKeys.keyPublic >>

\* C3 happens: a public connect() from Disconnected that returns true
C3_Witness ==
    /\ last.op = "connect"
    /\ last.pre.state = Disconnected
    /\ last.ret = TRUE
    /\ state = Connected

\* C4: every connect() that returns false ends in ConnectionError and has
\* appended exactly one EConnectionFailure with a non-empty reason, also
\* when the transport was already connected.
C4_FailedConnectReported ==
    (ConnectCalled /\ last.ret = FALSE)
        => /\ state = ConnectionError
           /\ AppendedOne
           /\ Appended.type = "EConnectionFailure"
           /\ Appended.data[1] # << >>

\* C5: InitError is terminal: no call leaves it, and none attempts a
\* transport connection from it.
C5_InitErrorTerminal ==
    (last.op # "HexagonClient" /\ last.pre.state = InitError)
        => /\ state = InitError
           /\ \A i \in DOMAIN last.io : last.io[i].op # "connect"

\* C6: every call that assigns LoggedIn to the state started in Connected or
\* LoggedIn.
C6_LoggedInOnlyFromConnected ==
    (\E i \in DOMAIN last.trace : last.trace[i] = LoggedIn)
        => last.pre.state \in { Connected, LoggedIn }

LogoutReplies == { "STCPLogoutSuccess", "STCPLogoutFailure" }

\* C7, as the code has it: the state goes from LoggedIn to Connected only in
\* a tryLogoutFromServer() that passes its guard; that call sets Connected
\* and clears the login session before it sends, whether the send succeeds
\* or fails; processing a logout reply only appends the event and leaves the
\* state as it was.
C7_LogoutIsLocal ==
    /\ (last.pre.state = LoggedIn /\ state = Connected)
            => last.op = "tryLogoutFromServer"
    /\ (last.op = "tryLogoutFromServer" /\ WasConnectedIn(LoggedIn))
            => /\ state = Connected
               /\ last.trace = << Connected >>
               /\ ~has_value(loginToken)
               /\ ~has_value(loginName)
    /\ (last.op = "update" /\ last.handled \in LogoutReplies)
            => /\ last.trace = << >>
               /\ state = last.pre.state
               /\ loginToken = last.pre.loginToken
               /\ loginName = last.pre.loginName
               /\ AppendedOne
               /\ Appended.type =
                    (IF last.handled = "STCPLogoutSuccess"
                     THEN "ELogoutSuccess" ELSE "ELogoutFailure")

\* C7 happens: a logout whose send failed has already left LoggedIn
C7_Witness ==
    /\ last.op = "tryLogoutFromServer"
    /\ WasConnectedIn(LoggedIn)
    /\ Len(Sends) = 1
    /\ last.ret = FALSE
    /\ state = Connected

\* C7 as stated: tryLogoutFromServer() by itself, whether its send succeeds
\* or fails, leaves the state LoggedIn and the login session present.
C7_AsStated ==
    (last.op = "tryLogoutFromServer" /\ last.pre.state = LoggedIn)
        => /\ state = LoggedIn
           /\ has_value(loginToken)
           /\ has_value(loginName)

\* C8: a login token or a login name is present only while the state is
\* LoggedIn.
C8_SessionOnlyWhenLoggedIn ==
    (has_value(loginToken) \/ has_value(loginName)) => state = LoggedIn

\* C9: a kick processed while the transport is connected, in Connected or
\* LoggedIn, appends exactly one EKicked and disconnects: the state is
\* Disconnected and the transport is not connected.
C9_KickDisconnects ==
    ( /\ last.op = "update"
      /\ last.handled = "STCPKick"
      /\ last.pre.socketConnected
      /\ last.pre.state \in { Connected, LoggedIn } )
        => /\ AppendedOne
           /\ Appended.type = "EKicked"
           /\ state = Disconnected
           /\ ~socketConnected

\* C9 happens: a logged-in client is kicked
C9_Witness ==
    /\ last.op = "update"
    /\ last.handled = "STCPKick"
    /\ last.pre.state = LoggedIn
    /\ state = Disconnected

\* The credentials tryRegister and tryLogin refuse
InvalidCredentials(name, password) ==
    Len(name) = 0 \/ Len(name) > 32 \/ Len(password) = 0

FailureOf(op) ==
    IF op = "tryRegister" THEN "ERegistrationFailure" ELSE "ELoginFailure"

\* C10: in Connected, tryRegister and tryLogin with an empty name, a name
\* longer than 32 bytes or an empty password append exactly one failure event
\* of their kind with a non-empty reason, return false, send nothing and
\* leave the state; with valid credentials the call appends no event.
C10_CredentialsValidated ==
    (last.op \in { "tryRegister", "tryLogin" } /\ WasConnectedIn(Connected))
        => IF InvalidCredentials(last.args[1], last.args[2])
           THEN /\ last.ret = FALSE
                /\ last.io = << >>
                /\ state = Connected
                /\ AppendedOne
                /\ Appended.type = FailureOf(last.op)
                /\ Appended.data[1] # ""
           ELSE events = last.pre.events

\* C10 happens: a registration with a name of 33 bytes is refused
C10_Witness ==
    /\ last.op = "tryRegister"
    /\ WasConnectedIn(Connected)
    /\ Len(last.args[1]) = 33
    /\ Len(last.args[2]) > 0
    /\ Len(events) > 0
    /\ Appended.type = "ERegistrationFailure"

\* C11: disconnect() on a client that is Disconnected sends nothing, appends
\* no event and leaves every field as it was (state, transport flag, session
\* keys, login session, event queue); so a second disconnect() changes
\* nothing the first one left.
C11_DisconnectIdempotent ==
    (last.op = "disconnect" /\ last.pre.state = Disconnected)
        => /\ Sends = << >>
           /\ ~last.threw
           /\ ObjectUntouched

\* C11 happens: disconnect() right after a disconnect() that ended a session
\* with keys
C11_Witness ==
    /\ last.op = "disconnect"
    /\ last.pre.state = Disconnected
    /\ has_value(last.pre.clientRTKeys)
    /\ state = Disconnected

IsHeartbeat(e) ==
    e.op = "send" /\ ~e.packet.enc /\ e.packet.body.kind = "CTSPHeartbeat"

Heartbeats == SelectSeq(last.io, IsHeartbeat)

Receives == SelectSeq(last.io, LAMBDA e : e.op = "receive")

\* C12: update() on a connected transport, with the last heartbeat more than
\* 45 seconds old, sends exactly one heartbeat, and sends it before the
\* receive and before any other traffic of the call; with the last heartbeat
\* 45 seconds old or less it sends no heartbeat.
C12_HeartbeatWhenDue ==
    (last.op = "update" /\ last.pre.socketConnected)
        => IF last.pre.heartbeatAge > 45
           THEN /\ Len(Heartbeats) = 1
                /\ IsHeartbeat(last.io[1])
           ELSE Len(Heartbeats) = 0

\* C12 happens: an update() 46 seconds after the last heartbeat sends the
\* heartbeat and then receives
C12_Witness ==
    /\ last.op = "update"
    /\ last.pre.socketConnected
    /\ last.pre.heartbeatAge = 46
    /\ Len(last.io) >= 2
    /\ IsHeartbeat(last.io[1])
    /\ last.io[2].op = "receive"

\* The heartbeat that was due in the call could not be sent
HeartbeatFailed ==
    /\ last.op = "update"
    /\ last.pre.socketConnected
    /\ last.pre.heartbeatAge > 45
    /\ IsHeartbeat(last.io[1])
    /\ last.io[1].status # Done

\* C13: when the heartbeat that is due in update() cannot be sent, the
\* client is disconnected: after the call the state is Disconnected and the
\* transport is not connected, nothing was received in the call, and the
\* time of the last heartbeat is what it was.
C13_FailedHeartbeatDisconnects ==
    HeartbeatFailed
        => /\ state = Disconnected
           /\ ~socketConnected
           /\ Receives = << >>
           /\ last.handled = ""
           /\ heartbeatAge = last.pre.heartbeatAge

\* C13 happens: the heartbeat of a logged-in client meets a socket error
C13_Witness ==
    /\ HeartbeatFailed
    /\ last.pre.state = LoggedIn
    /\ last.io[1].status = Error
    /\ state = Disconnected

FatalStatus == { Error, SocketDisconnected }

\* The receive of the call ended with a hard error or with the peer gone
ReceiveFailedFatally ==
    /\ last.op = "update"
    /\ Receives # << >>
    /\ Receives[1].status \in FatalStatus

\* C14: when the receive reports a hard error or the peer's disconnection,
\* the client is disconnected before the failure is passed up: the socket is
\* closed after the receive, no packet is processed, and after the call the
\* state is Disconnected and the transport is not connected.
C14_FatalReceiveDisconnects ==
    ReceiveFailedFatally
        => /\ state = Disconnected
           /\ ~socketConnected
           /\ last.handled = ""
           /\ last.io[Len(last.io)].op = "disconnect"
           /\ last.trace = << Disconnected >>

\* C14 happens: a logged-in client finds the peer gone
C14_Witness ==
    /\ ReceiveFailedFatally
    /\ Receives[1].status = SocketDisconnected
    /\ last.pre.state = LoggedIn
    /\ state = Disconnected

AllRequests == LoggedInRequests \cup ConnectedRequests

\* The one send of the request ended with a hard error or with the peer gone
SendFailedFatally ==
    /\ last.op \in AllRequests
    /\ last.pre.socketConnected
    /\ last.pre.state \in { Connected, LoggedIn }
    /\ Sends # << >>
    /\ Sends[1].status \in FatalStatus
    /\ last.ret = FALSE

\* C15: when the send of a request made in Connected or LoggedIn reports a
\* hard error or the peer's disconnection, the request returns false with
\* the state Disconnected and the transport not connected.
C15_FatalSendDisconnects ==
    SendFailedFatally => (state = Disconnected /\ ~socketConnected)

\* A transport error after the connection was established forced the state
\* to Disconnected: a fatal receive, or a due heartbeat that was not sent
ForcedDisconnect ==
    /\ last.op = "update"
    /\ last.pre.socketConnected
    /\ last.pre.state \in { Connected, LoggedIn }
    /\ state = Disconnected
    /\ (ReceiveFailedFatally \/ HeartbeatFailed)

\* C16: every transport error that forces the state to Disconnected also
\* appends an EConnectionFailure, which the consumer then gets from
\* pollEvent().
C16_ForcedDisconnectReported ==
    ForcedDisconnect
        => \E i \in DOMAIN events :
                /\ i > Len(last.pre.events)
                /\ events[i].type = "EConnectionFailure"

ProtocolErrors == { "PInvalid", "PEncryptedMsg" }

\* C18: when update() receives a frame that decodes to invalid or to a
\* still-encrypted envelope, the frame is dropped: the state, the transport
\* flag, the session keys, the login session and the event queue are what
\* they were.
C18_ProtocolErrorDropped ==
    (last.op = "update" /\ last.handled \in ProtocolErrors)
        => /\ state = last.pre.state
           /\ socketConnected = last.pre.socketConnected
           /\ socketConnected
           /\ serverPublicKey = last.pre.serverPublicKey
           /\ clientRTKeys = last.pre.clientRTKeys
           /\ loginToken = last.pre.loginToken
           /\ loginName = last.pre.loginName
           /\ events = last.pre.events
           /\ last.trace = << >>

\* C18 happens: a logged-in client receives a sealed frame it cannot open
C18_Witness ==
    /\ last.op = "update"
    /\ last.handled = "PInvalid"
    /\ Receives # << >>
    /\ Receives[1].packet.enc
    /\ last.pre.state = LoggedIn
    /\ state = LoggedIn

\* C19: the event queue is first in, first out.  A call other than
\* pollEvent() only appends: the events that waited are still there, in the
\* same order, before the new ones.  pollEvent() on a queue that is not
\* empty returns the oldest event and removes exactly that one; on an empty
\* queue it returns nothing and changes nothing.  So the events polled are,
\* in order, a prefix of the events appended.
C19_QueueIsFifo ==
    /\ last.op # "pollEvent"
            => /\ Len(events) >= Len(last.pre.events)
               /\ SubSeq(events, 1, Len(last.pre.events)) = last.pre.events
    /\ (last.op = "pollEvent" /\ last.pre.events # << >>)
            => /\ last.polled = Some(Head(last.pre.events))
               /\ events = Tail(last.pre.events)
    /\ (last.op = "pollEvent" /\ last.pre.events = << >>)
            => /\ last.polled = None
               /\ ObjectUntouched

\* C19 happens: events of two calls of update() wait in the queue, and
\* pollEvent() returns the oldest
C19_Witness ==
    /\ last.op = "pollEvent"
    /\ Len(last.pre.events) = 3
    /\ last.pre.events[1].type = "ELoginSuccess"
    /\ last.pre.events[2].type = "EReceivedTopScores"
    /\ last.pre.events[3].type = "EReceivedOwnScore"
    /\ value(last.polled).type = "ELoginSuccess"
    /\ Len(events) = 2
    /\ events[1].type = "EReceivedTopScores"

\* The public key of the server that the call received
ReceivedKey == Receives[1].packet.body.fields[1]

\* C20: processing a public key of the server always replaces the stored
\* session keys by the keys computed from the client's key pair and the key
\* received, and by nothing else: the keys stored after the call are a
\* function of the key just received, whatever was stored before, so the
\* same key received twice gives the same session keys.
C20_KeysFromLatestPublicKey ==
    (last.op = "update" /\ last.handled = "STCPPublicKey")
        => /\ serverPublicKey = Some(ReceivedKey)
           /\ clientRTKeys =
                calculateClientSessionSodiumRTKeys(clientPSKeys, ReceivedKey)

\* C20 happens: a client that holds the keys of one session receives the
\* public key of another
C20_Witness ==
    /\ last.op = "update"
    /\ last.handled = "STCPPublicKey"
    /\ last.pre.serverPublicKey = Some("spk1")
    /\ has_value(last.pre.clientRTKeys)
    /\ ReceivedKey = "spk2"
    /\ has_value(clientRTKeys)
    /\ clientRTKeys # last.pre.clientRTKeys

\* The kinds of the messages the call handed to the socket, in order
SentKinds == [i \in DOMAIN Sends |-> Sends[i].packet.body.kind]

\* C21: disconnect(), from any state, ends with the state Disconnected and
\* the transport not connected, whether or not its notices could be sent, and
\* passes no error up; called in LoggedIn it attempts a logout notice and
\* then a disconnect notice, in Connected only a disconnect notice, in any
\* other state it sends nothing; the socket is closed after every notice.
C21_DisconnectTearsDown ==
    last.op = "disconnect"
        => /\ state = Disconnected
           /\ ~socketConnected
           /\ ~last.threw
           /\ last.io # << >>
           /\ last.io[Len(last.io)].op = "disconnect"
           /\ Len(Sends) = Len(last.io) - 1
           /\ SentKinds =
                (IF last.pre.state = LoggedIn
                 THEN << "CTSPLogout", "CTSPDisconnect" >>
                 ELSE IF last.pre.state = Connected
                      THEN << "CTSPDisconnect" >>
                      ELSE << >>)

\* The packets the call handed to _socket.send or _socket.receive, in order
Transfers == SelectSeq(last.io, LAMBDA e : e.op \in { "send", "receive" })

\* C22, as the code has it: one sendPacket or recvPacket invokes the
\* primitive of the socket at least once and at most 6 times (the first
\* attempt and 5 retries); it goes on only while the primitive answers
\* Partial, so it ends on Partial only when the 6 calls are used up, and then
\* it fails: the request returns false, the update processes no packet.
C22_RetriesBounded ==
    /\ \A i \in DOMAIN Transfers :
            /\ Transfers[i].calls \in 1..6
            /\ Transfers[i].status = Partial => Transfers[i].calls = 6
    /\ (last.op \in AllRequests /\ Sends # << >> /\ Sends[1].status = Partial)
            => last.ret = FALSE
    /\ (last.op = "update" /\ Receives # << >>
            /\ Receives[1].status = Partial)
            => (last.handled = "" /\ events = last.pre.events)

\* C22 happens: the send of a replay is answered Partial every time, and the
\* request gives up after the sixth call
C22_Witness ==
    /\ last.op = "trySendReplay"
    /\ Len(Sends) = 1
    /\ Sends[1].status = Partial
    /\ Sends[1].calls = 6
    /\ last.ret = FALSE

\* C22 as stated: one sendPacket or recvPacket invokes the primitive of the
\* socket at most 5 times.
C22_AsStated ==
    \A i \in DOMAIN Transfers : Transfers[i].calls <= 5

\* The primitive of the socket answered NotReady to a packet of the call
NotReadySeen ==
    /\ last.op \in AllRequests \cup { "update" }
    /\ \E i \in DOMAIN Transfers : Transfers[i].status = NotReady

\* C23: a NotReady answer of the send or receive primitive is no error: in
\* update() and in every request, a call in which the primitive answered
\* NotReady leaves the state and the transport flag as they were and appends
\* no event.
C23_NotReadyIsNoError ==
    NotReadySeen
        => /\ state = last.pre.state
           /\ socketConnected = last.pre.socketConnected
           /\ events = last.pre.events

\* C24: a connect() called in ConnectionError, however that state was
\* reached, in which nothing the socket is asked to do fails, goes through
\* Connecting to Connected, returns true and appends exactly one
\* EConnectionSuccess.
C24_RetryConnects ==
    ( /\ last.op = "connect"
      /\ last.pre.state = ConnectionError
      /\ \A i \in DOMAIN last.io : last.io[i].status = Done )
        => /\ last.trace = << Connecting, Connected >>
           /\ state = Connected
           /\ socketConnected
           /\ last.ret = TRUE
           /\ AppendedOne
           /\ Appended.type = "EConnectionSuccess"

\* The identity provider gave a Steam ID in time
IdentityObtained(steam) ==
    /\ steam.responseAfter <= 15
    /\ steam.gotTicket
    /\ has_value(steam.steamId)

\* The constructor was given a server address that parses and a Steam ID
ValidlyConstructed == last.args[1] /\ IdentityObtained(last.args[2])

\* C25: a client constructed with a server address that does not parse, or
\* without a valid Steam ID, is in InitError: no connection was attempted,
\* nothing was sent and no event is queued.  A client constructed with a
\* valid address and a Steam ID has made exactly one connect() attempt.
C25_ConstructionChecksInputs ==
    last.op = "HexagonClient"
        => IF ValidlyConstructed
           THEN /\ Len(SelectSeq(last.trace, LAMBDA s : s = Connecting)) = 1
                /\ last.trace[1] = Connecting
                /\ Len(SelectSeq(last.io, LAMBDA e : e.op = "connect")) = 1
                /\ last.io[1].op = "connect"
                /\ state \in { Connected, ConnectionError }
           ELSE /\ state = InitError
                /\ last.trace = << InitError >>
                /\ last.io = << >>
                /\ ~socketConnected
                /\ events = << >>

\* C25 happens: the address is valid, the answer of the identity provider
\* comes too late
C25_Witness ==
    /\ last.op = "HexagonClient"
    /\ last.args[1]
    /\ last.args[2].responseAfter = 16
    /\ last.args[2].gotTicket
    /\ state = InitError
    /\ last.io = << >>

\* The secret key of the client's key pair, and its text
SecretKeyForms ==
    { ToString(clientPSKeys.keySecret),
      ToString(sodiumKeyToString(clientPSKeys.keySecret)) }

\* C26: the secret key of the client's key pair stays inside: no call writes
\* it to the log, and no packet handed to the socket carries it; the key
\* announced to the server is the public one.
C26_SecretKeyStaysInside ==
    /\ \A i \in DOMAIN last.log : ToString(last.log[i]) \notin SecretKeyForms
    /\ \A i \in DOMAIN Sends :
            /\ \A j \in DOMAIN Sends[i].packet.body.fields :
                    ToString(Sends[i].packet.body.fields[j])
                        \notin SecretKeyForms
            /\ Sends[i].packet.body.kind = "CTSPPublicKey"
                    => Sends[i].packet.body.fields
                            = << clientPSKeys.keyPublic >>

\* The failures the server reports for a request, and the event of each
FailureReplies ==
    { "STCPRegistrationFailure", "STCPLoginFailure", "STCPLogoutFailure",
      "STCPDeleteAccountFailure" }

FailureEventOf(kind) ==
    CASE kind = "STCPRegistrationFailure" -> "ERegistrationFailure"
      [] kind = "STCPLoginFailure" -> "ELoginFailure"
      [] kind = "STCPLogoutFailure" -> "ELogoutFailure"
      [] kind = "STCPDeleteAccountFailure" -> "EDeleteAccountFailure"

\* C27: a failure the server reports for a request keeps the connection
\* open: when update() receives a registration, login, logout or delete
\* account failure, exactly one failure event of the same kind is appended,
\* with the reason of the server where the message has one, and the state,
\* the transport flag, the session keys and the login session are what they
\* were.
C27_FailureKeepsConnection ==
    (last.op = "update" /\ last.handled \in FailureReplies)
        => /\ AppendedOne
           /\ Appended.type = FailureEventOf(last.handled)
           /\ Appended.data = Receives[1].packet.body.fields
           /\ last.handled # "STCPLogoutFailure" => Len(Appended.data) = 1
           /\ state = last.pre.state
           /\ last.trace = << >>
           /\ socketConnected
           /\ last.pre.socketConnected
           /\ serverPublicKey = last.pre.serverPublicKey
           /\ clientRTKeys = last.pre.clientRTKeys
           /\ loginToken = last.pre.loginToken
           /\ loginName = last.pre.loginName

\* C27 happens: a connected client is told that its login was refused
C27_Witness ==
    /\ last.op = "update"
    /\ last.handled = "STCPLoginFailure"
    /\ last.pre.state = Connected
    /\ state = Connected
    /\ socketConnected
    /\ Len(events) > 0
    /\ Appended.type = "ELoginFailure"
    /\ Appended.data = << "denied" >>

\* The message a request builds from its arguments and from the identity
\* and the login token of the client
RequestMessage ==
    LET steamId == value(last.pre.ticketSteamID)
        token == value(last.pre.loginToken)
    IN  CASE last.op = "tryRegister" ->
                CTSPRegister(steamId, last.args[1], hashPwd(last.args[2]))
          [] last.op = "tryLogin" ->
                CTSPLogin(steamId, last.args[1], hashPwd(last.args[2]))
          [] last.op = "tryLogoutFromServer" -> CTSPLogout(steamId)
          [] last.op = "tryDeleteAccount" ->
                CTSPDeleteAccount(steamId, hashPwd(last.args[1]))
          [] last.op = "tryRequestTopScores" ->
                CTSPRequestTopScores(token, last.args[1])
          [] last.op = "trySendReplay" -> CTSPReplay(token, last.args[1])
          [] last.op = "tryRequestOwnScore" ->
                CTSPRequestOwnScore(token, last.args[1])
          [] last.op = "tryRequestTopScoresAndOwnScore" ->
                CTSPRequestTopScoresAndOwnScore(token, last.args[1])
          [] last.op = "trySendStartedGame" ->
                CTSPStartedGame(token, last.args[1])

\* The message that was encoded into the i-th packet of the call
Outbound(i) ==
    IF last.op \in AllRequests THEN RequestMessage
    ELSE CASE SentKinds[i] = "CTSPHeartbeat" -> CTSPHeartbeat
           [] SentKinds[i] = "CTSPDisconnect" -> CTSPDisconnect
           [] SentKinds[i] = "CTSPPublicKey" ->
                CTSPPublicKey(clientPSKeys.keyPublic)
           [] SentKinds[i] = "CTSPLogout" ->
                CTSPLogout(value(last.pre.ticketSteamID))
           [] OTHER -> Msg("", << >>)

\* The key the server opens with in the session the client had when the
\* call started (an optional)
PeerKey ==
    IF has_value(last.pre.serverPublicKey)
    THEN Some(ServerOpenKey(value(last.pre.serverPublicKey)))
    ELSE None

\* The key of a session other than the client's
OtherKey ==
    IF last.pre.serverPublicKey = Some("spk2")
    THEN Some(ServerOpenKey("spk1"))
    ELSE Some(ServerOpenKey("spk2"))

ReceivedLogin == Receives[1].packet.body.fields

\* C29: when update() receives a login success in Connected, the login
\* token and the login name of the message are stored, whatever was stored
\* before, the state becomes LoggedIn, exactly one ELoginSuccess is
\* appended, and the transport and the session keys are what they were.
C29_LoginSuccessLogsIn ==
    ( /\ last.op = "update"
      /\ last.handled = "STCPLoginSuccess"
      /\ last.pre.state = Connected )
        => /\ loginToken = Some(ReceivedLogin[1])
           /\ loginName = Some(ReceivedLogin[2])
           /\ state = LoggedIn
           /\ last.trace = << LoggedIn >>
           /\ AppendedOne
           /\ Appended.type = "ELoginSuccess"
           /\ socketConnected
           /\ last.pre.socketConnected
           /\ serverPublicKey = last.pre.serverPublicKey
           /\ clientRTKeys = last.pre.clientRTKeys

\* C29 happens: a client that was logged in before, and connected again,
\* logs in as somebody else
C29_Witness ==
    /\ last.op = "update"
    /\ last.handled = "STCPLoginSuccess"
    /\ last.pre.state = Connected
    /\ last.pre.loginToken = Some("tok1")
    /\ last.pre.loginName = Some("nm1")
    /\ loginToken = Some("tok2")
    /\ loginName = Some("nm2")
    /\ state = LoggedIn

PasswordRequests == { "tryRegister", "tryLogin", "tryDeleteAccount" }

\* The password given to the request, and where its hash goes in the message
PasswordGiven ==
    IF last.op = "tryDeleteAccount" THEN last.args[1] ELSE last.args[2]

PasswordField == IF last.op = "tryDeleteAccount" THEN 2 ELSE 3

\* C30: passwords are never transmitted in the clear: every packet that
\* tryRegister, tryLogin or tryDeleteAccount hands to the socket is sealed
\* with the current transmit key and carries the hash of salt + password in
\* place of the password; no field of the message is the password.
C30_PasswordHashedAndSealed ==
    last.op \in PasswordRequests
        => \A i \in DOMAIN Sends :
            LET p == Sends[i].packet IN
            /\ p.enc
            /\ p.key = Some(value(last.pre.clientRTKeys).keyTransmit)
            /\ p.body.kind = RequestMessage.kind
            /\ p.body.fields[PasswordField]
                    = sodiumHash(<< "salt", PasswordGiven >>)
            /\ \A j \in DOMAIN p.body.fields :
                    ToString(p.body.fields[j]) # ToString(PasswordGiven)

\* C30 happens: an account is deleted, and the request reaches the socket
C30_Witness ==
    /\ last.op = "tryDeleteAccount"
    /\ last.args[1] = << "p" >>
    /\ Len(Sends) = 1
    /\ Sends[1].status = Done
    /\ Sends[1].packet.enc
    /\ Sends[1].packet.body.kind = "CTSPDeleteAccount"
    /\ last.ret = TRUE

\* C31: in every state, after any sequence of calls and of messages of the
\* server: if the state is Connected or LoggedIn, the transport is
\* connected.
C31_ConnectedHasTransport ==
    state \in { Connected, LoggedIn } => socketConnected

\* C31 happens: a client that logged in, lost the connection and connected
\* again
C31_Witness ==
    /\ last.op = "connect"
    /\ has_value(last.pre.loginToken)
    /\ last.pre.state = Disconnected
    /\ state = Connected
    /\ socketConnected

\* C32: whenever a public call has returned, if the transport is connected
\* the state is Connected or LoggedIn: the client does not rest in
\* Disconnected, Connecting, ConnectionError or InitError with an open
\* transport.
C32_TransportHasConnectedState ==
    socketConnected => state \in { Connected, LoggedIn }

\* The requests that read the login token
TokenRequests ==
    { "tryRequestTopScores", "tryRequestOwnScore",
      "tryRequestTopScoresAndOwnScore", "trySendStartedGame", "trySendReplay" }

\* C33: in every state where the transport is connected and the state is
\* LoggedIn the login token is present, and no request that reads the login
\* token finds it absent.
C33_LoggedInHasToken ==
    /\ (socketConnected /\ state = LoggedIn) => has_value(loginToken)
    /\ (last.op \in TokenRequests /\ WasConnectedIn(LoggedIn))
          => (has_value(last.pre.loginToken) /\ ~last.threw)

\* C33 happens: a request that reads the login token was made while logged in
\* and got past its precondition
C33_Witness ==
    /\ last.op \in TokenRequests
    /\ WasConnectedIn(LoggedIn)
    /\ last.io # << >>
    /\ has_value(loginToken)
    /\ state = LoggedIn

\* The requests that send the verified identity
IdentityRequests ==
    [ tryRegister |-> Connected, tryLogin |-> Connected,
      tryDeleteAccount |-> Connected, tryLogoutFromServer |-> LoggedIn ]

\* C34: whenever tryRegister, tryLogin, tryDeleteAccount or
\* tryLogoutFromServer passes its precondition on the state and the
\* transport, the verified identity is present, also after a connect() that
\* follows a construction ended in InitError.
C34_IdentityPresent ==
    (/\ last.op \in DOMAIN IdentityRequests
     /\ WasConnectedIn(IdentityRequests[last.op]))
        => (has_value(last.pre.ticketSteamID) /\ ~last.threw)

\* C35: session keys do not outlive their connection.  After a connect()
\* that succeeded, following disconnect() or a forced disconnect, the session
\* keys are absent (no public key of the server has been received on the new
\* connection yet), so no request on the new connection is sealed with keys
\* of an earlier connection.
C35_KeysEndWithConnection ==
    (last.op = "connect" /\ last.ret /\ ~last.pre.socketConnected)
        => (~has_value(clientRTKeys) /\ ~has_value(serverPublicKey))

\* The state and the login session are as before the call
SessionUnchanged ==
    /\ state = last.pre.state
    /\ loginToken = last.pre.loginToken
    /\ loginName = last.pre.loginName

\* tryLogoutFromServer() got past its precondition
LogoutBegun == last.op = "tryLogoutFromServer" /\ WasConnectedIn(LoggedIn)

\* C36: a request that returns false leaves the state, the login token and
\* the login name as they were, whatever made it fail (precondition, send
\* not ready, retries exhausted, session keys missing, sealing failed); the
\* exception is tryLogoutFromServer() past its precondition, which has set
\* Connected and cleared the login session before the send that failed.
C36_FailedRequestKeepsSession ==
    (last.op \in AllRequests /\ ~last.ret)
        => IF LogoutBegun
           THEN /\ state = Connected
                /\ ~has_value(loginToken)
                /\ ~has_value(loginName)
           ELSE SessionUnchanged

\* C36 happens: a request of a logged-in client other than the logout got
\* past its precondition and returned false because the send failed
C36_Witness ==
    /\ last.op \in TokenRequests
    /\ WasConnectedIn(LoggedIn)
    /\ ~last.ret
    /\ ~last.threw
    /\ Sends # << >>
    /\ state = LoggedIn
    /\ has_value(loginToken)

\* C36 as stated: every request that returns false leaves the state and the
\* login session unchanged
C36_AsStated ==
    (last.op \in AllRequests /\ ~last.ret /\ ~last.threw) => SessionUnchanged

\* The call processed a public key of the server that gives no session keys
DerivationFailed ==
    /\ last.op = "update"
    /\ last.handled = "STCPPublicKey"
    /\ ~has_value(calculateClientSessionSodiumRTKeys(clientPSKeys,
                                                     ReceivedKey))

\* C37: when the session keys cannot be computed from a public key received
\* from the server, the client disconnects: after that update() the state is
\* Disconnected, the transport is not connected, the session keys are absent
\* even if there were keys before, and no event was appended.
C37_FailedDerivationDisconnects ==
    DerivationFailed
        => /\ state = Disconnected
           /\ ~socketConnected
           /\ ~has_value(clientRTKeys)
           /\ events = last.pre.events

\* C37 happens: a client that had session keys received a public key that
\* gives none
C37_Witness ==
    /\ DerivationFailed
    /\ has_value(last.pre.clientRTKeys)
    /\ last.pre.state \in { Connected, LoggedIn }
    /\ state = Disconnected

\* The events the call appended, when it removed none
NewEvents ==
    IF /\ Len(events) >= Len(last.pre.events)
       /\ SubSeq(events, 1, Len(last.pre.events)) = last.pre.events
    THEN SubSeq(events, Len(last.pre.events) + 1, Len(events))
    ELSE << "removed" >>

\* The message update() received and handled
ReceivedScores == Receives[1].packet.body.fields

\* The events a scores message is to give
ScoreEvents ==
    CASE last.handled = "STCPTopScores" ->
            << EReceivedTopScores(ReceivedScores[1], ReceivedScores[2]) >>
      [] last.handled = "STCPOwnScore" ->
            << EReceivedOwnScore(ReceivedScores[1], ReceivedScores[2]) >>
      [] last.handled = "STCPTopScoresAndOwnScore" ->
            << EReceivedTopScores(ReceivedScores[1], ReceivedScores[2]) >>
                \o (IF has_value(ReceivedScores[3])
                    THEN << EReceivedOwnScore(ReceivedScores[1],
                                              value(ReceivedScores[3])) >>
                    ELSE << >>)

\* C38: a top-and-own-scores message appends EReceivedTopScores and then,
\* only when it carries an own score, EReceivedOwnScore right after it, both
\* with the level validator of the message; a top-scores or an own-score
\* message appends exactly one event of its kind; the state stays as it was.
C38_ScoresEvents ==
    ( /\ last.op = "update"
      /\ last.handled \in { "STCPTopScores", "STCPOwnScore",
                            "STCPTopScoresAndOwnScore" } )
        => /\ NewEvents = ScoreEvents
           /\ state = last.pre.state

\* C38 happens: a message with top scores and an own score was received and
\* gave two events
C38_Witness ==
    /\ last.op = "update"
    /\ last.handled = "STCPTopScoresAndOwnScore"
    /\ has_value(ReceivedScores[3])
    /\ Len(events) = Len(last.pre.events) + 2
    /\ events[Len(events)].type = "EReceivedOwnScore"

\* C39: update() with the transport not connected does nothing: it sends no
\* heartbeat, makes no receive attempt, appends no event and leaves the
\* state, the session keys and the login session as they were; and an
\* update() takes at most one frame from the transport.
C39_UpdateWithoutTransport ==
    last.op = "update"
        => /\ ~last.pre.socketConnected
                => /\ last.io = << >>
                   /\ last.handled = ""
                   /\ ObjectUntouched
           /\ Len(Receives) <= 1

\* C39 happens: update() on a client that has session keys and no transport
C39_Witness ==
    /\ last.op = "update"
    /\ ~last.pre.socketConnected
    /\ has_value(last.pre.clientRTKeys)
    /\ last.pre.state = Disconnected
    /\ state = Disconnected

\* The events a message of the server is to give
EventsOf(m) ==
    CASE m.kind = "STCPLoginSuccess" -> << ELoginSuccess >>
      [] m.kind = "STCPTopScores" ->
            << EReceivedTopScores(m.fields[1], m.fields[2]) >>
      [] m.kind = "STCPTopScoresAndOwnScore" ->
            << EReceivedTopScores(m.fields[1], m.fields[2]) >>
                \o (IF has_value(m.fields[3])
                    THEN << EReceivedOwnScore(m.fields[1],
                                              value(m.fields[3])) >>
                    ELSE << >>)
      [] OTHER -> << >>

RECURSIVE EventsOfAll(_)
EventsOfAll(msgs) ==
    IF msgs = << >> THEN << >>
    ELSE EventsOf(Head(msgs)) \o EventsOfAll(Tail(msgs))

\* The events of everything the server has sent, in the order sent
Owed == EventsOfAll(wire.sent)

\* The events that come from messages of the server
FrameEvents(es) ==
    SelectSeq(es, LAMBDA e : e.type \notin { "EConnectionSuccess",
                                             "EConnectionFailure" })

\* The events returned to the consumer and then those waiting in the queue
Surfaced == FrameEvents(wire.got \o events)

\* C40: with update() and pollEvent() called again and again and every
\* waiting frame in the end received complete, while the transport stays
\* connected: the events of the messages the server sent are appended in
\* the order sent and none else, and each of them is in the end returned by
\* pollEvent().
C40_EventsReachConsumer ==
    /\ [](/\ Len(Surfaced) <= Len(Owed)
          /\ Surfaced = SubSeq(Owed, 1, Len(Surfaced)))
    /\ \A k \in 1..(2 * MaxSent) :
          (Len(Owed) >= k)
              ~> (~socketConnected \/ Len(FrameEvents(wire.got)) >= k)

\* C40 happens: the server sent two messages with events after its key, and
\* the consumer has got every event of them
C40_Witness ==
    /\ socketConnected
    /\ Len(wire.sent) = MaxSent
    /\ Len(Owed) >= 2
    /\ wire.inbound = << >>
    /\ FrameEvents(wire.got) = Owed

====
